---- MODULE Spec2Model ----
(***************************************************************************)
(* Model of timesketch_api_client/story.py: the block classes (BaseBlock,  *)
(* ViewBlock, TextBlock) and the Story resource with its lazily loaded,    *)
(* cached block list and its commit/refresh round trips to the server.     *)
(*                                                                         *)
(* Python values are modelled by records of one shape per kind, so that    *)
(* TLC can compare them:                                                   *)
(*   payload (BaseBlock._data)  [k, s, id, name, has_id, has_name]         *)
(*   block object               [TYPE, index, _data, _view_id, _view_name] *)
(*   raw block dict (the wire)  [componentName, componentProps, content,   *)
(*                               edit, showPanel, isActive]                *)
(* Python list positions are 0-based; TLA+ sequences are 1-based, so list  *)
(* position i is sequence position i + 1.                                  *)
(***************************************************************************)
EXTENDS Integers, Sequences, FiniteSets, TLC

\* Largest number of blocks the in-memory list and the server may hold.
MaxBlocks == 3

\* Text payloads given to add_text; "" is the empty string.
Texts == {"", "a", "b"}

\* (id, name) pairs of the views of the sketch.
ViewRefs == {<<1, "v">>}

\* Titles a story can have on the server.
Titles == {"T"}

Min(a, b) == IF a < b THEN a ELSE b
Max(a, b) == IF a > b THEN a ELSE b

(***************************************************************************)
(* Payloads: None, a str, or an object that may have id/name attributes.   *)
(***************************************************************************)
None == [k |-> "None", s |-> "", id |-> 0, name |-> "",
         has_id |-> FALSE, has_name |-> FALSE]

Str(t) == [k |-> "str", s |-> t, id |-> 0, name |-> "",
           has_id |-> FALSE, has_name |-> FALSE]

\* view.View(view_id, view_name, sketch_id, api): an object with id and name.
View(view_id, view_name) ==
    [k |-> "obj", s |-> "", id |-> view_id, name |-> view_name,
     has_id |-> TRUE, has_name |-> TRUE]

\* Objects that lack the id or the name attribute.
NoIdObj == [k |-> "obj", s |-> "", id |-> 0, name |-> "v",
            has_id |-> FALSE, has_name |-> TRUE]

NoNameObj == [k |-> "obj", s |-> "", id |-> 1, name |-> "",
              has_id |-> TRUE, has_name |-> FALSE]

\* Python truth value of a payload: None and '' are false.
Truthy(d) == d.k = "obj" \/ (d.k = "str" /\ d.s # "")

\* hasattr(d, 'id') and hasattr(d, 'name').
hasattr_id(d) == d.k = "obj" /\ d.has_id
hasattr_name(d) == d.k = "obj" /\ d.has_name

(***************************************************************************)
(* Python list.insert and list.pop on a 0-based list.                      *)
(***************************************************************************)
\* list.insert(i, x): a negative i counts from the end, and i is clamped.
PyInsert(l, i, x) ==
    LET pos == IF i < 0 THEN Max(0, Len(l) + i) ELSE Min(i, Len(l))
    IN  SubSeq(l, 1, pos) \o <<x>> \o SubSeq(l, pos + 1, Len(l))

\* The 1-based position list.pop(i) removes, or 0 when it raises IndexError.
PyPopPos(l, i) ==
    LET j == IF i < 0 THEN i + Len(l) ELSE i
    IN  IF j < 0 \/ j >= Len(l) THEN 0 ELSE j + 1

RemoveAt(l, p) == SubSeq(l, 1, p - 1) \o SubSeq(l, p + 1, Len(l))

(***************************************************************************)
(* Blocks.                                                                 *)
(***************************************************************************)
\* BaseBlock.__init__ / ViewBlock.__init__: _data is None, the view fields
\* are 0 and ''.  (A TextBlock has no view fields; they stay 0 and ''.)
ViewBlock(index) ==
    [TYPE |-> "view", index |-> index, _data |-> None,
     _view_id |-> 0, _view_name |-> ""]

TextBlock(index) ==
    [TYPE |-> "text", index |-> index, _data |-> None,
     _view_id |-> 0, _view_name |-> ""]

feed(b, data) == [b EXCEPT !._data = data]

reset(b) == [b EXCEPT !._data = None]

NoViewProps == [has_view |-> FALSE, view |-> [id |-> 0, name |-> ""]]

_get_base ==
    [componentName |-> "", componentProps |-> NoViewProps, content |-> "",
     edit |-> FALSE, showPanel |-> FALSE, isActive |-> FALSE]

\* The outcome of a method: the exception it raised ("none" when it
\* returned) and the value it returned.
Raise(e, v) == [exc |-> e, val |-> v]
Return(v) == [exc |-> "none", val |-> v]

view_id(b) ==
    IF Truthy(b._data) /\ hasattr_id(b._data) THEN b._data.id ELSE b._view_id

view_name(b) ==
    IF Truthy(b._data) /\ hasattr_name(b._data) THEN b._data.name
    ELSE b._view_name

\* from_dict that takes a missing view for a view with id 0 and name ''.
ViewBlock_from_dict_lenient(b, data_dict) ==
    LET props == data_dict.componentProps
    IN  Return([b EXCEPT !._view_id = props.view.id,
                         !._view_name = props.view.name])

ViewBlock_from_dict(b, data_dict) ==
    LET props == data_dict.componentProps
    IN  IF ~props.has_view
        THEN Raise("TypeError", b)
        ELSE Return([b EXCEPT !._view_id = props.view.id,
                              !._view_name = props.view.name])

ViewBlock_to_dict(b) ==
    IF ~Truthy(b._data) THEN Raise("ValueError", _get_base)
    ELSE IF ~hasattr_id(b._data) THEN Raise("TypeError", _get_base)
    ELSE IF ~hasattr_name(b._data) THEN Raise("TypeError", _get_base)
    ELSE Return([_get_base EXCEPT
                    !.componentName = "TsViewEventList",
                    !.componentProps =
                        [has_view |-> TRUE,
                         view |-> [id |-> b._data.id, name |-> b._data.name]]])

TextBlock_from_dict(b, data_dict) == Return(feed(b, Str(data_dict.content)))

TextBlock_to_dict(b) ==
    IF ~Truthy(b._data) THEN Raise("ValueError", _get_base)
    ELSE IF b._data.k # "str" THEN Raise("TypeError", _get_base)
    ELSE Return([_get_base EXCEPT !.content = b._data.s])

\* TextBlock.text (property).
TextBlock_text(b) == IF ~Truthy(b._data) THEN "" ELSE b._data.s

\* Dynamic dispatch on the block's class.
to_dict(b) == IF b.TYPE = "text" THEN TextBlock_to_dict(b) ELSE ViewBlock_to_dict(b)

from_dict(b, data_dict) ==
    IF b.TYPE = "text" THEN TextBlock_from_dict(b, data_dict)
    ELSE ViewBlock_from_dict(b, data_dict)

\* BaseBlock.data: the property returns to_dict().
data(b) == to_dict(b)

(***************************************************************************)
(* State.  The Story object's fields, the resource layer's cache, and the  *)
(* story as the server stores it.                                          *)
(***************************************************************************)
VARIABLES
    _blocks,        \* Story._blocks: the in-memory list of block objects
    _title,         \* Story._title: the cached title, '' when not loaded
    resource_data,  \* BaseResource.resource_data: the cached GET answer
    server,         \* the story on the server: [title, content]
    last,           \* the last call made on the Story and its outcome
    pc,             \* per caller: where its call stands (SpecConc)
    call,           \* per caller: the call's arguments and locals (SpecConc)
    hist            \* what the callers' calls did so far (SpecConc)

vars == <<_blocks, _title, resource_data, server, last, pc, call, hist>>

NoResource == [loaded |-> FALSE, title |-> "", content |-> <<>>]

\* The Story object as a value: its fields, the server it talks to, and the
\* effects of the running call (exception raised, return value, number of
\* POSTs sent and of GETs made).
Self ==
    [_blocks |-> _blocks, _title |-> _title, resource_data |-> resource_data,
     server |-> server, exc |-> "none", ret |-> "None", posts |-> 0,
     fetches |-> 0]

\* BaseResource.lazyload_data: the GET answer is cached; it is fetched when
\* there is none yet or when refresh_cache is set.
lazyload_data(s, refresh_cache) ==
    IF ~s.resource_data.loaded \/ refresh_cache
    THEN [s EXCEPT !.resource_data =
                       [loaded |-> TRUE, title |-> s.server.title,
                        content |-> s.server.content],
                   !.fetches = @ + 1]
    ELSE s

\* The loop of Story.blocks over json.loads(content): entry number `index`
\* (0-based) and the ones after it are appended to acc, until one raises.
RECURSIVE blocks_loop(_, _, _)
blocks_loop(content, index, acc) ==
    IF index >= Len(content) THEN Return(acc)
    ELSE LET content_block == content[index + 1]
         IN  IF content_block.content # ""
             THEN LET r == TextBlock_from_dict(TextBlock(index), content_block)
                  IN  blocks_loop(content, index + 1, Append(acc, r.val))
             ELSE LET r == ViewBlock_from_dict(ViewBlock(index), content_block)
                  IN  IF r.exc # "none" THEN Raise(r.exc, acc)
                      ELSE blocks_loop(content, index + 1,
                               Append(acc, feed(r.val,
                                   View(view_id(r.val), view_name(r.val)))))

\* Story.blocks (property): loads the list when it is empty; the value
\* returned is s._blocks.
blocks(s) ==
    IF s._blocks # <<>> THEN s
    ELSE LET s1 == lazyload_data(s, FALSE)
             r == blocks_loop(s1.resource_data.content, 0, s1._blocks)
         IN  [s1 EXCEPT !._blocks = r.val, !.exc = r.exc]

\* Story.title (property): loads the title when the cached one is ''.
title(s) ==
    IF s._title # "" THEN s
    ELSE LET s1 == lazyload_data(s, FALSE)
         IN  [s1 EXCEPT !._title = s1.resource_data.title]

\* [x.to_dict() for x in l]: the exception of the first block that raises.
FirstExc(l) ==
    IF \E i \in 1..Len(l) : to_dict(l[i]).exc # "none"
    THEN LET i == CHOOSE i \in 1..Len(l) :
                      /\ to_dict(l[i]).exc # "none"
                      /\ \A j \in 1..(i - 1) : to_dict(l[j]).exc = "none"
         IN  to_dict(l[i]).exc
    ELSE "none"

content_list(l) == [i \in 1..Len(l) |-> to_dict(l[i]).val]

\* Story._commit.  ok: whether the server answers the POST with a 2xx
\* status; it then stores the title and the content it was sent (the
\* content travels as JSON text and is read back by json.loads as the same
\* list of dicts).
_commit(s, ok) ==
    IF FirstExc(s._blocks) # "none" THEN [s EXCEPT !.exc = FirstExc(s._blocks)]
    ELSE LET s1 == title(s)
         IN  [s1 EXCEPT !.server = IF ok
                                   THEN [title |-> s1._title,
                                         content |-> content_list(s1._blocks)]
                                   ELSE @,
                        !.posts = @ + 1,
                        !.ret = IF ok THEN "True" ELSE "False"]

\* Story.refresh, in its two halves: the reset of the cached fields and the
\* reload from a fresh GET.
refresh_reset(s) == [s EXCEPT !._title = "", !._blocks = <<>>]

\* The reload without refresh_cache: the cached GET answer is used.
refresh_reload_cached(s) == blocks(lazyload_data(s, FALSE))

refresh_reload(s) == blocks(lazyload_data(s, TRUE))

refresh(s) == [refresh_reload(refresh_reset(s)) EXCEPT !.ret = "None"]

\* self._blocks.insert(index, block)
insert_block(s, block, index) ==
    [s EXCEPT !._blocks = PyInsert(@, index, block)]

\* _add_block without the refresh after the commit.
_add_block_no_refresh(s, block, index, ok) ==
    [_commit(insert_block(s, block, index), ok) EXCEPT !.ret = "None"]

\* Story._add_block: it has no return statement, so it returns None.
_add_block(s, block, index, ok) ==
    LET s1 == _commit(insert_block(s, block, index), ok)
    IN  IF s1.exc # "none" THEN s1 ELSE refresh(s1)

\* add_text with the default index resolved to 0 instead of the length.
add_text_default_front(s, text, index, ok) ==
    LET idx == IF index = -1 THEN 0 ELSE index
        text_block == feed(TextBlock(idx), Str(text))
    IN  _add_block(s, text_block, idx, ok)

\* The block add_text constructs and feeds: its index is the index
\* argument, or the length of the list for the default -1.
add_text_block(s, text, index) ==
    LET idx == IF index = -1 THEN Len(s._blocks) ELSE index
    IN  feed(TextBlock(idx), Str(text))

add_text(s, text, index, ok) ==
    LET text_block == add_text_block(s, text, index)
    IN  _add_block(s, text_block, text_block.index, ok)

\* add_view without the check of the name attribute.
add_view_no_name_check(s, view_obj, index, ok) ==
    IF ~hasattr_id(view_obj) THEN [s EXCEPT !.exc = "TypeError"]
    ELSE LET idx == IF index = -1 THEN Len(s._blocks) ELSE index
             view_block == feed(ViewBlock(idx), view_obj)
         IN  _add_block(s, view_block, idx, ok)

\* The block add_view constructs and feeds.
add_view_block(s, view_obj, index) ==
    LET idx == IF index = -1 THEN Len(s._blocks) ELSE index
    IN  feed(ViewBlock(idx), view_obj)

add_view(s, view_obj, index, ok) ==
    IF ~hasattr_id(view_obj) THEN [s EXCEPT !.exc = "TypeError"]
    ELSE IF ~hasattr_name(view_obj) THEN [s EXCEPT !.exc = "TypeError"]
    ELSE LET view_block == add_view_block(s, view_obj, index)
         IN  _add_block(s, view_block, view_block.index, ok)

\* move_blocks without the comparison of the payloads.
move_blocks_no_check(s, block, new_index) ==
    LET p == PyPopPos(s._blocks, block.index)
    IN  IF p = 0 THEN [s EXCEPT !.exc = "IndexError"]
        ELSE insert_block([s EXCEPT !._blocks = RemoveAt(@, p)], block,
                          new_index)

\* The first half of Story.move_to: the pop, the comparison of the payloads
\* and the insert.
move_blocks(s, block, new_index) ==
    LET p == PyPopPos(s._blocks, block.index)
    IN  IF p = 0 THEN [s EXCEPT !.exc = "IndexError"]
        ELSE LET old_block == s._blocks[p]
                 s1 == [s EXCEPT !._blocks = RemoveAt(@, p)]
             IN  IF data(old_block).exc # "none"
                 THEN [s1 EXCEPT !.exc = data(old_block).exc]
                 ELSE IF data(block).exc # "none"
                 THEN [s1 EXCEPT !.exc = data(block).exc]
                 ELSE IF data(old_block).val # data(block).val
                 THEN [s1 EXCEPT !.exc = "ValueError"]
                 ELSE insert_block(s1, block, new_index)

\* move_to without the early return for a negative new_index.
move_to_no_guard(s, block, new_index, ok) ==
    LET s1 == move_blocks(s, block, new_index)
    IN  IF s1.exc # "none" THEN s1
        ELSE [_commit(s1, ok) EXCEPT !.ret = "None"]

move_to(s, block, new_index, ok) ==
    IF new_index < 0 THEN s
    ELSE LET s1 == move_blocks(s, block, new_index)
         IN  IF s1.exc # "none" THEN s1
             ELSE [_commit(s1, ok) EXCEPT !.ret = "None"]

\* pop() without its argument: the last block is removed.
pop_block_last(s, index) ==
    IF s._blocks = <<>> THEN [s EXCEPT !.exc = "IndexError"]
    ELSE [s EXCEPT !._blocks = RemoveAt(@, Len(@))]

\* _ = self._blocks.pop(index)
pop_block(s, index) ==
    LET p == PyPopPos(s._blocks, index)
    IN  IF p = 0 THEN [s EXCEPT !.exc = "IndexError"]
        ELSE [s EXCEPT !._blocks = RemoveAt(@, p)]

remove_block(s, index, ok) ==
    LET s1 == pop_block(s, index)
    IN  IF s1.exc # "none" THEN s1
        ELSE LET s2 == _commit(s1, ok)
             IN  IF s2.exc # "none" THEN s2 ELSE refresh(s2)

\* BaseBlock.move_down, move_up and delete: the return value of the Story's
\* method is dropped.
move_down(s, b, ok) == move_to(s, b, b.index + 1, ok)
move_up(s, b, ok) == move_to(s, b, b.index - 1, ok)
delete(s, b, ok) == remove_block(s, b.index, ok)

(***************************************************************************)
(* Inputs and initial states.                                              *)
(***************************************************************************)
\* Raw block dicts a stored story can hold: the text and view dicts the
\* client writes, and a dict with neither text nor view.
TextDict(t) == [_get_base EXCEPT !.content = t]

ViewDict(v) ==
    [_get_base EXCEPT !.componentName = "TsViewEventList",
                      !.componentProps =
                          [has_view |-> TRUE,
                           view |-> [id |-> v[1], name |-> v[2]]]]

ValidDicts == {TextDict(t) : t \in Texts \ {""}} \cup {ViewDict(v) : v \in ViewRefs}

RawDicts == ValidDicts \cup {_get_base}

SeqsUpTo(S, n) == UNION {[1..k -> S] : k \in 0..n}

\* Objects handed to add_view.
ViewObjs == {View(v[1], v[2]) : v \in ViewRefs} \cup {NoIdObj, NoNameObj}

\* Index arguments: -1 is add_text's and add_view's default.
Indexes == -1..MaxBlocks

Callers == {1, 2}

\* A caller's call: op is "add", "move" or "remove"; dict is the raw dict of
\* the block it adds or removes.
NoCall == [op |-> "none", dict |-> _get_base]

\* The number of entries of the content list l that equal the dict d.
CountIn(l, d) == Cardinality({i \in 1..Len(l) : l[i] = d})

\* What the callers' calls did so far: overlap, a caller took a step while
\* the other was inside a call; allok, every POST was answered 2xx;
\* raised, a call ended with an exception; loaded0, the Story's blocks had
\* been read before the calls; expect, per raw dict, how many the server
\* held at first, plus those added and minus those removed by the calls
\* whose POST was answered 2xx.
NoHist ==
    [overlap |-> FALSE, allok |-> TRUE, raised |-> FALSE, loaded0 |-> FALSE,
     expect |-> [d \in ValidDicts |-> 0]]

\* No call yet.  A call's record holds: op, the Story method called; exc,
\* the exception it raised ("none" when it returned); ret, what it
\* returned; posts, the POSTs it sent; ok, whether its POST was answered
\* 2xx.
NoLast ==
    [op |-> "init", exc |-> "none", ret |-> "None", posts |-> 0,
     ok |-> FALSE]

\* Story.__init__ (and BaseResource.__init__): nothing is loaded; the
\* server holds some story.
Init ==
    /\ _blocks = <<>>
    /\ _title = ""
    /\ resource_data = NoResource
    /\ server \in [title : Titles, content : SeqsUpTo(RawDicts, MaxBlocks)]
    /\ last = NoLast
    /\ pc = [c \in Callers |-> "idle"]
    /\ call = [c \in Callers |-> NoCall]
    /\ hist = NoHist

(***************************************************************************)
(* Spec: the calls made one at a time, each one whole.                     *)
(***************************************************************************)
\* The call `op` with outcome r: the Story's fields and the server become
\* r's, and `last` records the call.
Outcome(op, r, ok) ==
    /\ _blocks' = r._blocks
    /\ _title' = r._title
    /\ resource_data' = r.resource_data
    /\ server' = r.server
    /\ last' = [op |-> op, exc |-> r.exc,
                ret |-> IF r.exc = "none" THEN r.ret ELSE "raised",
                posts |-> r.posts, ok |-> (r.posts > 0 /\ ok)]
    /\ UNCHANGED <<pc, call, hist>>

\* Every block of the list encodes (to_dict raises for none of them).
Encodable(l) == FirstExc(l) = "none"

\* Adding is explored while the list is below MaxBlocks and holds no block
\* that fails to encode.
CanAdd == Len(_blocks) < MaxBlocks /\ Encodable(_blocks)

\* The (text, index) arguments of add_text: every text at every index,
\* the empty text at the default index only.
AddTextArgs == {a \in Texts \X Indexes : a[1] = "" => a[2] = -1}

AddText ==
    \E a \in AddTextArgs, ok \in BOOLEAN :
        /\ CanAdd
        /\ Outcome("add_text", add_text(Self, a[1], a[2], ok), ok)

AddView ==
    \E view_obj \in ViewObjs, index \in Indexes, ok \in BOOLEAN :
        /\ CanAdd
        /\ Outcome("add_view", add_view(Self, view_obj, index, ok), ok)

\* Block objects a caller holds are the ones of the list; their index is
\* the one they were constructed with, whatever their position is now.
MoveTo ==
    \E pos \in 1..Len(_blocks), new_index \in Indexes, ok \in BOOLEAN :
        Outcome("move_to", move_to(Self, _blocks[pos], new_index, ok), ok)

\* block.move_down(), block.move_up() and block.delete() are calls of
\* Story.move_to and Story.remove_block, and recorded as such.
MoveDown ==
    \E pos \in 1..Len(_blocks), ok \in BOOLEAN :
        Outcome("move_to", move_down(Self, _blocks[pos], ok), ok)

MoveUp ==
    \E pos \in 1..Len(_blocks), ok \in BOOLEAN :
        Outcome("move_to", move_up(Self, _blocks[pos], ok), ok)

RemoveBlock ==
    \E index \in Indexes, ok \in BOOLEAN :
        Outcome("remove_block", remove_block(Self, index, ok), ok)

Delete ==
    \E pos \in 1..Len(_blocks), ok \in BOOLEAN :
        Outcome("remove_block", delete(Self, _blocks[pos], ok), ok)

Refresh == Outcome("refresh", refresh(Self), FALSE)

ReadBlocks == Outcome("blocks", blocks(Self), FALSE)

ReadTitle == Outcome("title", title(Self), FALSE)

Next ==
    \/ AddText
    \/ AddView
    \/ MoveTo
    \/ MoveDown
    \/ MoveUp
    \/ RemoveBlock
    \/ Delete
    \/ Refresh
    \/ ReadBlocks
    \/ ReadTitle

Spec == Init /\ [][Next]_vars

(***************************************************************************)
(* SpecConc: two callers, each making one call on the same Story, their    *)
(* calls interleaved at the list mutation, the commit POST, the reset of   *)
(* refresh and the reload of refresh.                                      *)
(***************************************************************************)
\* Texts and indexes of the callers' add_text calls.
ConcTexts == Texts \ {""}
ConcAddIndexes == {-1, 0}

\* The Story freshly constructed for the story the server holds.
Fresh(srv) ==
    [_blocks |-> <<>>, _title |-> "", resource_data |-> NoResource,
     server |-> srv, exc |-> "none", ret |-> "None", posts |-> 0,
     fetches |-> 0]

\* The Story after __init__, or after __init__ and a read of story.blocks;
\* the server holds a story of blocks that decode.
InitConc ==
    \E srv \in [title : Titles, content : SeqsUpTo(ValidDicts, MaxBlocks - 1)],
       loaded \in BOOLEAN :
        LET s == IF loaded THEN blocks(Fresh(srv)) ELSE Fresh(srv)
        IN  /\ _blocks = s._blocks
            /\ _title = s._title
            /\ resource_data = s.resource_data
            /\ server = s.server
            /\ last = NoLast
            /\ pc = [c \in Callers |-> "idle"]
            /\ call = [c \in Callers |-> NoCall]
            /\ hist = [NoHist EXCEPT
                          !.loaded0 = loaded,
                          !.expect = [d \in ValidDicts |->
                                         CountIn(srv.content, d)]]

InCall(c) == pc[c] \notin {"idle", "done"}

\* Caller c takes a step that leaves the Story as s, goes to `to` (to
\* "done" when s holds an exception), and its call becomes cl.
Step(c, s, to, cl) ==
    /\ _blocks' = s._blocks
    /\ _title' = s._title
    /\ resource_data' = s.resource_data
    /\ server' = s.server
    /\ pc' = [pc EXCEPT ![c] = IF s.exc # "none" THEN "done" ELSE to]
    /\ call' = [call EXCEPT ![c] = cl]
    /\ last' = last

\* The history after a step of caller c that leaves the Story as s.
Touched(c, s) ==
    [hist EXCEPT !.overlap = @ \/ \E o \in Callers \ {c} : InCall(o),
                 !.raised = @ \/ s.exc # "none"]

\* add_text up to and including self._blocks.insert(index, block).
CAddText(c) ==
    \E text \in ConcTexts, index \in ConcAddIndexes :
        LET b == add_text_block(Self, text, index)
            s == insert_block(Self, b, b.index)
        IN  /\ pc[c] = "idle"
            /\ Len(_blocks) < MaxBlocks
            /\ Step(c, s, "mutated", [op |-> "add", dict |-> to_dict(b).val])
            /\ hist' = Touched(c, s)

\* add_view up to and including self._blocks.insert(index, block).
CAddView(c) ==
    \E v \in ViewRefs :
        LET b == add_view_block(Self, View(v[1], v[2]), -1)
            s == insert_block(Self, b, b.index)
        IN  /\ pc[c] = "idle"
            /\ Len(_blocks) < MaxBlocks
            /\ Step(c, s, "mutated", [op |-> "add", dict |-> to_dict(b).val])
            /\ hist' = Touched(c, s)

\* move_to up to and including self._blocks.insert(new_index, block); a
\* negative new_index ends the call.
CMoveTo(c) ==
    \E pos \in 1..Len(_blocks), new_index \in Indexes :
        LET s == IF new_index < 0 THEN Self
                 ELSE move_blocks(Self, _blocks[pos], new_index)
        IN  /\ pc[c] = "idle"
            /\ Step(c, s, IF new_index < 0 THEN "done" ELSE "mutated",
                    [op |-> "move", dict |-> _get_base])
            /\ hist' = Touched(c, s)

\* remove_block up to and including self._blocks.pop(index).
CRemoveBlock(c) ==
    \E index \in 0..(MaxBlocks - 1) :
        LET s == pop_block(Self, index)
            p == PyPopPos(_blocks, index)
            d == IF p # 0 /\ to_dict(_blocks[p]).exc = "none"
                 THEN to_dict(_blocks[p]).val ELSE _get_base
        IN  /\ pc[c] = "idle"
            /\ Step(c, s, "mutated", [op |-> "remove", dict |-> d])
            /\ hist' = Touched(c, s)

\* self._commit(): the call's POST.  move_to ends here.
CCommit(c) ==
    \E ok \in BOOLEAN :
        LET s == _commit(Self, ok)
            d == call[c].dict
            h == Touched(c, s)
        IN  /\ pc[c] = "mutated"
            /\ Step(c, s, IF call[c].op = "move" THEN "done" ELSE "committed",
                    call[c])
            /\ hist' =
                 IF s.posts = 0 THEN h
                 ELSE IF ~ok THEN [h EXCEPT !.allok = FALSE]
                 ELSE IF call[c].op = "add" /\ d \in ValidDicts
                 THEN [h EXCEPT !.expect[d] = @ + 1]
                 ELSE IF call[c].op = "remove" /\ d \in ValidDicts
                 THEN [h EXCEPT !.expect[d] = Max(0, @ - 1)]
                 ELSE h

\* refresh: self._title = ''; self._blocks = [].
CReset(c) ==
    /\ pc[c] = "committed"
    /\ Step(c, refresh_reset(Self), "reset", call[c])
    /\ hist' = Touched(c, Self)

\* refresh: lazyload_data(refresh_cache=True) and the read of self.blocks.
CReload(c) ==
    LET s == refresh_reload(Self)
    IN  /\ pc[c] = "reset"
        /\ Step(c, s, "done", call[c])
        /\ hist' = Touched(c, s)

NextConc ==
    \E c \in Callers :
        \/ CAddText(c)
        \/ CAddView(c)
        \/ CMoveTo(c)
        \/ CRemoveBlock(c)
        \/ CCommit(c)
        \/ CReset(c)
        \/ CReload(c)

SpecConc == InitConc /\ [][NextConc]_vars

(***************************************************************************)
(* Properties.  A property of a call is stated over every state the Story  *)
(* reaches and every argument of the call: r is the outcome of the call    *)
(* made in that state.                                                     *)
(***************************************************************************)
\* The decoding of a content list by Story.blocks.
Decoded(content) == blocks_loop(content, 0, <<>>).val

\* The kind and payload of each block, in list order.
Payloads(l) == [i \in 1..Len(l) |-> [TYPE |-> l[i].TYPE, _data |-> l[i]._data]]

\* Every block's index is its 0-based position.
Renumbered(l) == \A i \in 1..Len(l) : l[i].index = i - 1

\* Block objects handed to move_to: the ones of the list, and blocks of an
\* earlier load, whose index and payload need not match the list any more.
AnyBlocks ==
    {_blocks[i] : i \in 1..Len(_blocks)}
    \cup {feed(TextBlock(i), Str(t)) :
             i \in 0..(MaxBlocks - 1), t \in Texts \ {""}}
    \cup {[feed(ViewBlock(i), View(v[1], v[2])) EXCEPT
               !._view_id = v[1], !._view_name = v[2]] :
             i \in 0..(MaxBlocks - 1), v \in ViewRefs}

Mutating == {"add_text", "add_view", "move_to", "remove_block"}

\* The outcome r followed by a read of story.blocks.
ThenBlocks(r) == IF r.exc = "none" THEN blocks(r) ELSE r

\* C1: add_text and add_view return True when the commit POST was answered
\* 2xx and False when it was answered non-2xx.
C1_AddReturnsCommitStatus ==
    (last.op \in {"add_text", "add_view"} /\ last.posts = 1)
        => last.ret = (IF last.ok THEN "True" ELSE "False")

\* C2: in every reachable state the block at position i of the in-memory
\* list has index i.
C2_IndexIsPosition == Renumbered(_blocks)

\* C3 as stated: after a mutating call whose commit POST was answered
\* non-2xx, the in-memory list differs from the server's list.
C3_FailedCommitDiverges ==
    (last.op \in Mutating /\ last.posts = 1 /\ ~last.ok)
        => ~(Encodable(_blocks) /\ content_list(_blocks) = server.content)

\* C3 as amended: when the commit POST is answered non-2xx the server keeps
\* its list; move_to leaves the in-memory list as moved, with no reload;
\* add_text, add_view and remove_block have reloaded the in-memory list
\* from the server by their own refresh, so it is the decoding of the
\* server's list and the mutation is gone.
C3_FailedCommitOutcome ==
    /\ \A a \in AddTextArgs :
           LET r == add_text(Self, a[1], a[2], FALSE)
           IN  r.posts = 1 =>
                   r.server = server /\ r._blocks = Decoded(server.content)
    /\ \A view_obj \in ViewObjs, index \in Indexes :
           LET r == add_view(Self, view_obj, index, FALSE)
           IN  r.posts = 1 =>
                   r.server = server /\ r._blocks = Decoded(server.content)
    /\ \A index \in Indexes :
           LET r == remove_block(Self, index, FALSE)
           IN  r.posts = 1 =>
                   r.server = server /\ r._blocks = Decoded(server.content)
    /\ \A block \in AnyBlocks, new_index \in Indexes :
           LET r == move_to(Self, block, new_index, FALSE)
               p == PyPopPos(_blocks, block.index)
           IN  r.posts = 1 =>
                   /\ r.server = server
                   /\ r._blocks = PyInsert(RemoveAt(_blocks, p), new_index, block)

C3_Witness ==
    /\ last.op = "add_text" /\ last.posts = 1 /\ ~last.ok
    /\ last.exc = "none" /\ Len(_blocks) > 0

AppendedText(r, l, t) ==
    /\ r.exc = "none"
    /\ Len(r._blocks) = Len(l) + 1
    /\ Payloads(SubSeq(r._blocks, 1, Len(l))) = Payloads(l)
    /\ Renumbered(r._blocks)
    /\ r._blocks[Len(l) + 1].TYPE = "text"
    /\ TextBlock_text(r._blocks[Len(l) + 1]) = t
    /\ r._blocks[Len(l) + 1].index = Len(l)

C6_MoveToNegativeIsNoOp ==
    \A block \in AnyBlocks, new_index \in {-2, -1}, ok \in BOOLEAN :
        LET r == move_to(Self, block, new_index, ok)
        IN  /\ r.exc = "none"
            /\ r._blocks = _blocks
            /\ r._title = _title
            /\ r.posts = 0
            /\ r.server = server

C6_Witness ==
    /\ last.op = "move_to" /\ last.exc = "none" /\ last.posts = 0
    /\ Len(_blocks) >= 2

\* C7: move_to with new_index >= 0, when the list entry at position
\* block.index has a payload different from the block's, raises ValueError
\* and sends no POST: the server's list is unchanged.
C7_MoveToMismatchRaises ==
    \A block \in AnyBlocks, new_index \in 0..MaxBlocks, ok \in BOOLEAN :
        LET r == move_to(Self, block, new_index, ok)
            p == PyPopPos(_blocks, block.index)
        IN  (p # 0 /\ _blocks[p]._data # block._data) =>
                r.exc = "ValueError" /\ r.posts = 0 /\ r.server = server

C7_Witness ==
    /\ last.op = "move_to" /\ last.exc = "ValueError" /\ last.posts = 0
    /\ Encodable(_blocks) /\ Len(_blocks) >= 1

\* C8: for a block of the list that encodes, r = to_dict(), then
\* from_dict(r) on a new block of the same kind and to_dict() on that
\* block, gives r again without raising.
C8_RoundTrip ==
    \A i \in 1..Len(_blocks) :
        LET b == _blocks[i]
            r == to_dict(b)
            fresh == IF b.TYPE = "text" THEN TextBlock(b.index)
                     ELSE ViewBlock(b.index)
            b2 == from_dict(fresh, r.val)
        IN  r.exc = "none" =>
                b2.exc = "none" /\ to_dict(b2.val) = Return(r.val)

\* C9: add_view with an object that lacks id or name raises TypeError and
\* does nothing else: the in-memory list is unchanged, no POST is sent and
\* no GET is made.
C9_AddViewRejects ==
    \A view_obj \in ViewObjs, index \in Indexes, ok \in BOOLEAN :
        LET r == add_view(Self, view_obj, index, ok)
        IN  (~hasattr_id(view_obj) \/ ~hasattr_name(view_obj)) =>
                /\ r.exc = "TypeError"
                /\ r._blocks = _blocks
                /\ r._title = _title
                /\ r.resource_data = resource_data
                /\ r.server = server
                /\ r.posts = 0
                /\ r.fetches = 0

C9_Witness ==
    /\ last.op = "add_view" /\ last.exc = "TypeError" /\ last.posts = 0
    /\ Len(_blocks) >= 1

\* The server's list lacks a block that was stored at first or added by a
\* call whose POST was answered 2xx, and that no such call removed.
Lost == \E d \in ValidDicts : CountIn(server.content, d) < hist.expect[d]

\* C10, second half: when the callers' calls run one after the other and
\* every POST is answered 2xx, the server's list lacks no block that was
\* stored before or added by a call.
C10_SequentialKeepsBlocks == (~hist.overlap /\ hist.allok) => ~Lost

\* C10, first half: two calls on a loaded Story interleave, neither raises,
\* every POST is answered 2xx, and the server's list lacks a block.
C10_RaceLosesBlock ==
    /\ \A c \in Callers : pc[c] = "done"
    /\ hist.overlap /\ hist.allok /\ ~hist.raised /\ hist.loaded0
    /\ Lost

\* The calls of a loaded Story, run one after the other with no exception
\* and every POST answered 2xx, lose no block.
SequentialLoadedKeepsBlocks ==
    (~hist.overlap /\ hist.allok /\ ~hist.raised /\ hist.loaded0) => ~Lost

\* Titles the server can hold when refresh is called: the story's, and one
\* given to it by another client since the Story object read it.
ServerTitles == Titles \cup {"U"}

\* C11: after refresh() returns, the in-memory list is the decoding of the
\* server's content, in the server's order with indices 0..n-1, the cached
\* title is cleared, the next read of title gives the server's title, and
\* the cached GET answer is the server's story.
C11_RefreshMirrorsServer ==
    \A t \in ServerTitles :
        LET s == [Self EXCEPT !.server.title = t]
            r == refresh(s)
        IN  r.exc = "none" =>
                /\ r._blocks = Decoded(s.server.content)
                /\ Len(r._blocks) = Len(s.server.content)
                /\ Renumbered(r._blocks)
                /\ content_list(r._blocks) = s.server.content
                /\ r._title = ""
                /\ title(r)._title = t
                /\ title(r).fetches = r.fetches
                /\ r.resource_data =
                       [loaded |-> TRUE, title |-> t,
                        content |-> s.server.content]
                /\ r.server = s.server

C11_Witness ==
    /\ last.op = "refresh" /\ last.exc = "none"
    /\ Len(_blocks) >= 2 /\ _title = ""
    /\ resource_data.content = server.content

\* C12: every commit POSTs the whole in-memory list, encoded in list order,
\* with the title, and returns True exactly on a 2xx answer; after a
\* successful move_to(block, new_index) with new_index >= 0 the server's
\* list is the in-memory list, which is the previous list with the block
\* taken from its position and inserted at new_index, and no GET was made.
C12_CommitPostsMovedList ==
    /\ \A ok \in BOOLEAN :
           LET r == _commit(Self, ok)
           IN  r.posts = 1 =>
                   /\ r.ret = (IF ok THEN "True" ELSE "False")
                   /\ ok => r.server = [title |-> title(Self)._title,
                                        content |-> content_list(_blocks)]
                   /\ ~ok => r.server = server
    /\ \A pos \in 1..Len(_blocks), new_index \in 0..MaxBlocks :
           LET block == _blocks[pos]
               r == move_to(Self, block, new_index, TRUE)
           IN  (r.exc = "none" /\ r.posts = 1) =>
                   /\ r.server.content = content_list(r._blocks)
                   /\ Payloads(r._blocks) =
                          Payloads(PyInsert(RemoveAt(_blocks, pos),
                                            new_index, block))
                   /\ r.fetches = 0

\* The same for a list whose blocks have their position as index.
CommitPostsMovedListRenumbered == Renumbered(_blocks) => C12_CommitPostsMovedList

\* A raw dict with both a text and a view.
BothDict == [ViewDict(<<1, "v">>) EXCEPT !.content = "a"]

\* Content lists given to the lazy load: the server's, and the server's
\* with one entry replaced by a dict that has both a text and a view.
DecodeContents ==
    {server.content}
    \cup {[server.content EXCEPT ![i] = BothDict] : i \in 1..Len(server.content)}

\* An entry with neither a text nor a view.
Undecodable(d) == d.content = "" /\ ~d.componentProps.has_view

\* The block entry d decodes to at 0-based position k.
ExpectedBlock(d, k) ==
    IF d.content # ""
    THEN [TYPE |-> "text", index |-> k, _data |-> Str(d.content),
          _view_id |-> 0, _view_name |-> ""]
    ELSE [TYPE |-> "view", index |-> k,
          _data |-> View(d.componentProps.view.id, d.componentProps.view.name),
          _view_id |-> d.componentProps.view.id,
          _view_name |-> d.componentProps.view.name]

\* C13: the lazy load decodes the content list entry by entry in order: an
\* entry with non-empty content becomes a TextBlock with that text, any
\* other entry a ViewBlock with the id and name of componentProps.view, the
\* k-th entry gets index k; an entry with empty content and no view makes
\* the load raise TypeError.
C13_LazyLoadDecodes ==
    \A c \in DecodeContents :
        LET r == blocks(Fresh([title |-> server.title, content |-> c]))
        IN  IF \E i \in 1..Len(c) : Undecodable(c[i])
            THEN r.exc = "TypeError"
            ELSE /\ r.exc = "none"
                 /\ r._blocks = [i \in 1..Len(c) |-> ExpectedBlock(c[i], i - 1)]
                 /\ \A i \in 1..Len(c) :
                        /\ c[i].content # "" =>
                               TextBlock_text(r._blocks[i]) = c[i].content
                        /\ c[i].content = "" =>
                               /\ view_id(r._blocks[i]) =
                                      c[i].componentProps.view.id
                               /\ view_name(r._blocks[i]) =
                                      c[i].componentProps.view.name

C13_Witness ==
    /\ last.op = "blocks" /\ last.exc = "none" /\ Len(_blocks) = MaxBlocks
    /\ \E i \in 1..Len(_blocks) : _blocks[i].TYPE = "text"
    /\ \E i \in 1..Len(_blocks) : _blocks[i].TYPE = "view"
    /\ Renumbered(_blocks)

\* The list `after` is the list `before` with the dict d inserted somewhere.
WithOneMore(after, before, d) ==
    \E p \in 1..Len(after) : after[p] = d /\ RemoveAt(after, p) = before

\* C14: after an add_text or add_view whose commit POST was answered 2xx,
\* the server's list holds every block it held before the call, in the same
\* order, plus the new block, whatever was done on the Story before.
C14_AddKeepsStored ==
    /\ \A a \in AddTextArgs :
           LET r == add_text(Self, a[1], a[2], TRUE)
           IN  r.posts = 1 =>
                   WithOneMore(r.server.content, server.content, TextDict(a[1]))
    /\ \A v \in ViewRefs, index \in Indexes :
           LET r == add_view(Self, View(v[1], v[2]), index, TRUE)
           IN  r.posts = 1 =>
                   WithOneMore(r.server.content, server.content, ViewDict(v))

\* The same for a Story whose in-memory list encodes to the server's list.
AddKeepsStoredWhenLoaded ==
    (Encodable(_blocks) /\ content_list(_blocks) = server.content)
        => C14_AddKeepsStored

\* The lists hold the same payloads, each as many times.
SameBlocks(l1, l2) ==
    /\ Len(l1) = Len(l2)
    /\ \A i \in 1..Len(l1) :
           Cardinality({j \in 1..Len(l1) : Payloads(l1)[j] = Payloads(l1)[i]})
             = Cardinality({j \in 1..Len(l2) : Payloads(l2)[j] = Payloads(l1)[i]})

\* C15: in every outcome of move_to on a block of the list, the in-memory
\* list holds the same blocks as before the call.
C15_MoveToPermutes ==
    \A pos \in 1..Len(_blocks), new_index \in Indexes, ok \in BOOLEAN :
        SameBlocks(move_to(Self, _blocks[pos], new_index, ok)._blocks, _blocks)

\* The same for the calls that do not raise ValueError.
MoveToPermutesUnlessValueError ==
    \A pos \in 1..Len(_blocks), new_index \in Indexes, ok \in BOOLEAN :
        LET r == move_to(Self, _blocks[pos], new_index, ok)
        IN  r.exc # "ValueError" => SameBlocks(r._blocks, _blocks)

\* A loaded story of at least three blocks with distinct payloads.
LoadedDistinct ==
    /\ Len(_blocks) >= 3
    /\ Renumbered(_blocks)
    /\ Encodable(_blocks)
    /\ content_list(_blocks) = server.content
    /\ \A i, j \in 1..Len(_blocks) : i # j => _blocks[i]._data # _blocks[j]._data

\* C16: on such a story, move_down() twice on the block object at position
\* 0 leaves it at position 2 without raising, and move_down() then move_up()
\* on it restores the original order.
C16_MoveDownTwice ==
    LoadedDistinct =>
        LET b == _blocks[1]
            r1 == move_down(Self, b, TRUE)
            r2 == move_down(r1, b, TRUE)
            r3 == move_up(r1, b, TRUE)
        IN  /\ r1.exc = "none" /\ r2.exc = "none" /\ r3.exc = "none"
            /\ Len(r2._blocks) = Len(_blocks)
            /\ r2._blocks[3]._data = b._data
            /\ Payloads(r3._blocks) = Payloads(_blocks)

\* The first move_down() alone does what C16 expects of it.
FirstMoveDownMoves ==
    LoadedDistinct =>
        LET r1 == move_down(Self, _blocks[1], TRUE)
        IN  r1.exc = "none" /\ r1._blocks[2]._data = _blocks[1]._data

\* C17: when the load of blocks raises part-way, the in-memory list is left
\* empty, and the next read of blocks decodes the content again (and raises
\* again) instead of returning the decoded prefix.
C17_LoadAllOrNothing ==
    LET r == blocks(Self)
    IN  r.exc # "none" =>
            /\ r._blocks = <<>>
            /\ blocks([r EXCEPT !.exc = "none"]).exc # "none"

====
